---- MODULE Spec2Model ----
(***************************************************************************)
(* Model of the Flask task API (src/app.py) and its database bootstrap     *)
(* (src/setup_database.py).                                                *)
(*                                                                         *)
(* The store is the MongoDB database flask_db: the collections tasks and   *)
(* users, the indexes, and the ObjectId generator.  Every driver command   *)
(* (find_one, insert_one, find_one_and_update, delete_one, delete_many,    *)
(* insert_many, count_documents, create_index) is one atomic step.  A       *)
(* handler that issues one command is one action; reset_database is one    *)
(* action per command it issues, so that requests served by different      *)
(* threads interleave between its commands.                                *)
(*                                                                         *)
(* A document is a function from field names to values.  A path            *)
(* parameter task_id is an integer: a negative one stands for a string     *)
(* that is no ObjectId, n >= 0 for the 24-digit hex string of ObjectId n.  *)
(* Timestamps are the token Now: no handler reads a timestamp back.        *)
(***************************************************************************)
EXTENDS Integers, Sequences, FiniteSets, TLC

\* ------------------------------------------------------------------ bounds
\* Requests served per behaviour.
MaxReq == 2

\* ----------------------------------------------------------------- inputs
\* Server threads handling requests.
Workers == {"w1", "w2"}

\* task_id path parameters the clients send: a malformed string, the third
\* id of the first seeding, and the first id assigned after one seeding (a
\* well-formed id no task has until then).
TaskIds == {-1, 3, 6}

\* JSON null.
Null == "<null>"

\* The client-settable fields of a task.
Fields == {"title", "completed", "priority", "description"}

\* The value a client supplies for each field.
Supplied == [title |-> "x", completed |-> TRUE, priority |-> "high",
             description |-> "d"]

\* request.get_json(): None, or the parsed JSON object.
NoBody == [present |-> FALSE, obj |-> << >>]

Json(obj) == [present |-> TRUE, obj |-> obj]

\* Bodies of PUT requests: none, every subset of the fields, and an empty
\* and a null title.
Bodies ==
    {NoBody}
    \cup {Json([f \in S |-> Supplied[f]]) : S \in SUBSET Fields}
    \cup {Json("title" :> ""), Json("title" :> Null)}

\* Bodies of POST requests: none, {}, one without a title, a title with
\* every subset of the optional fields, and an empty and a null title.
PostBodies ==
    {NoBody, Json(<< >>), Json([f \in Fields \ {"title"} |-> Supplied[f]])}
    \cup {Json([f \in S \cup {"title"} |-> Supplied[f]]) : S \in SUBSET (Fields \ {"title"})}
    \cup {Json("title" :> ""), Json("title" :> Null)}

\* datetime.now().isoformat()
Now == "ts"

\* ------------------------------------------------------------ sample data
sample_tasks == <<
    [title |-> "Learn Python Basics", completed |-> TRUE, created_at |-> Now,
     priority |-> "high", description |-> "Complete Python fundamentals course"],
    [title |-> "Build Flask API", completed |-> TRUE, created_at |-> Now,
     priority |-> "high", description |-> "Create REST API with Flask and MongoDB"],
    [title |-> "Deploy to Render", completed |-> FALSE, created_at |-> Now,
     priority |-> "medium", description |-> "Deploy application to cloud platform"],
    [title |-> "Learn MongoDB", completed |-> FALSE, created_at |-> Now,
     priority |-> "medium",
     description |-> "Understand NoSQL databases and MongoDB operations"],
    [title |-> "Create Frontend UI", completed |-> FALSE, created_at |-> Now,
     priority |-> "low",
     description |-> "Build interactive web interface with HTML/CSS/JS"] >>

sample_users == <<
    [name |-> "Thakur Paudel", email |-> "thakur@example.com", role |-> "admin",
     created_at |-> Now],
    [name |-> "Demo User", email |-> "demo@example.com", role |-> "user",
     created_at |-> Now] >>

AllIndexes == {"tasks.created_at", "tasks.completed", "users.email"}

\* ------------------------------------------------------- store operations
\* bson.ObjectId(task_id) raises InvalidId unless task_id is well-formed.
ObjectIdValid(task_id) == task_id >= 0

\* str(ObjectId)
StrOfObjectId(oid) == oid

\* Variant: the in-memory scheme, max(existing ids) + 1.
MaxPlusOneId(ts, next) ==
    IF DOMAIN ts = {} THEN 1
    ELSE 1 + CHOOSE m \in DOMAIN ts : \A i \in DOMAIN ts : i <= m

\* The id the store gives the next inserted document: never one it gave before.
NewObjectId(ts, next) == next

\* collection.delete_one({"_id": oid})
DeleteOne(ts, oid) == [i \in DOMAIN ts \ {oid} |-> ts[i]]

\* collection.delete_many({}) on tasks
DeleteManyTasks(ts) == << >>

\* Variant: the users collection is not cleared.
DeleteNoUsers(us) == us

\* collection.delete_many({}) on users
DeleteManyUsers(us) == << >>

\* collection.insert_one(doc) with the id the store assigned
InsertOne(ts, oid, doc) == (oid :> doc) @@ ts

\* Variant: the stored document is replaced by update_data.
ReplaceDocument(doc, update_data) ==
    update_data @@ [f \in {"created_at"} |-> doc[f]]

\* {"$set": update_data} applied to a stored document
ApplySet(doc, update_data) == update_data @@ doc

\* data.get(key, default)
DictGet(obj, key, default) == IF key \in DOMAIN obj THEN obj[key] ELSE default

\* Python's "not data": None and the empty dict are both falsy.
Falsy(data) == ~data.present \/ DOMAIN data.obj = {}

\* create_task's validation: the request is rejected with 400
TitleMissing(data) == Falsy(data) \/ "title" \notin DOMAIN data.obj

\* Variant: completed is always stored as False.
NewTaskNotCompleted(obj) ==
    [title |-> obj["title"],
     completed |-> FALSE,
     priority |-> DictGet(obj, "priority", "medium"),
     description |-> DictGet(obj, "description", ""),
     created_at |-> Now]

\* create_task's new_task
NewTask(obj) ==
    [title |-> obj["title"],
     completed |-> DictGet(obj, "completed", FALSE),
     priority |-> DictGet(obj, "priority", "medium"),
     description |-> DictGet(obj, "description", ""),
     created_at |-> Now]

\* Variant: omitted fields get create_task's defaults.
UpdateDataWithDefaults(obj) ==
    [title |-> DictGet(obj, "title", ""),
     completed |-> DictGet(obj, "completed", FALSE),
     priority |-> DictGet(obj, "priority", "medium"),
     description |-> DictGet(obj, "description", ""),
     updated_at |-> Now]

\* update_task's update_data
UpdateData(obj) ==
    [f \in (DOMAIN obj \cap Fields) |-> obj[f]] @@ ("updated_at" :> Now)

\* serialize_task, and the "_id" rewrite of get_tasks and create_task
serialize_task(doc, oid) == ("_id" :> StrOfObjectId(oid)) @@ doc

\* create_sample_tasks: insert_many of the five samples, ids in order
CreateSampleTasks(ts, next) ==
    [i \in next .. (next + Len(sample_tasks) - 1) |-> sample_tasks[i - next + 1]] @@ ts

Emails(us) == {us[i].email : i \in 1 .. Len(us)}

\* An ordered insert_many into users stops at the first document whose email
\* the unique index already holds; k documents are inserted.
RECURSIVE InsertedPrefix(_, _, _)
InsertedPrefix(us, docs, idx) ==
    IF docs = << >> THEN 0
    ELSE IF "users.email" \in idx /\ Head(docs).email \in Emails(us) THEN 0
    ELSE 1 + InsertedPrefix(Append(us, Head(docs)), Tail(docs), idx)

\* create_sample_users: the users collection afterwards
CreateSampleUsers(us, idx) ==
    us \o SubSeq(sample_users, 1, InsertedPrefix(us, sample_users, idx))

\* create_sample_users raises BulkWriteError
CreateSampleUsersRaises(us, idx) ==
    InsertedPrefix(us, sample_users, idx) < Len(sample_users)

\* create_index("email", unique=True) raises when two users share an email
\* and the index is not there yet.
CreateIndexesRaises(us, idx) ==
    /\ "users.email" \notin idx
    /\ Cardinality(Emails(us)) < Len(us)

\* create_indexes: the two task indexes come first
CreateIndexes(us, idx) ==
    IF CreateIndexesRaises(us, idx)
    THEN idx \cup {"tasks.created_at", "tasks.completed"}
    ELSE AllIndexes

\* check_database_empty
CheckDatabaseEmpty(tasks_count, users_count) == tasks_count = 0 /\ users_count = 0

Count(ts) == Cardinality(DOMAIN ts)

\* The databases the application can find when it connects: a fresh one, one
\* whose tasks were all deleted through the API, one whose last two tasks
\* were.
PreStores ==
    { [tasks |-> << >>, users |-> << >>, indexes |-> {}, nextId |-> 1],
      [tasks |-> << >>, users |-> sample_users, indexes |-> AllIndexes, nextId |-> 6],
      [tasks |-> [i \in 1 .. 3 |-> sample_tasks[i]], users |-> sample_users,
       indexes |-> AllIndexes, nextId |-> 6] }


\* init_database_if_empty run in one piece (no other thread exists at import
\* time); an exception leaves the store as the failing command found it.
InitDatabaseIfEmpty(st) ==
    IF ~CheckDatabaseEmpty(Count(st.tasks), Len(st.users)) THEN st
    ELSE LET ts == CreateSampleTasks(st.tasks, st.nextId)
             nx == st.nextId + Len(sample_tasks)
             us == CreateSampleUsers(st.users, st.indexes)
         IN  IF CreateSampleUsersRaises(st.users, st.indexes)
             THEN [tasks |-> ts, users |-> us, indexes |-> st.indexes, nextId |-> nx]
             ELSE [tasks |-> ts, users |-> us,
                   indexes |-> CreateIndexes(us, st.indexes), nextId |-> nx]

\* ------------------------------------------------------------------ state
VARIABLES
    phase,      \* "boot": module not imported; "init": connected, before
                \* init_database_if_empty; "running": serving requests
    client,     \* "None" or "conn": app.py's client / db / *_collection
    tasks,      \* the tasks collection: ObjectId -> document
    users,      \* the users collection, in insertion order
    indexes,    \* the indexes that exist
    nextId,     \* the store's ObjectId generator
    pc,         \* per thread: the command its handler issues next
    req,        \* per thread: the handler's locals
    last,       \* the last response sent
    nreq,       \* requests started so far
    deleted,    \* history: ids for which DELETE answered 200
    created,    \* history: id -> the object POST returned, until a PUT or
                \* DELETE of that id; wiped is set when a reset clears tasks
    seedIds,    \* history: ids inserted by create_sample_tasks
    putLog      \* history: the PUTs answered 200, oldest first

vars == <<phase, client, tasks, users, indexes, nextId, pc, req, last, nreq,
          deleted, created, seedIds, putLog>>

store == <<tasks, users, indexes, nextId>>

history == <<deleted, created, seedIds, putLog>>

IdleReq ==
    [op |-> "none", tasks_count |-> 0, users_count |-> 0, task_count |-> 0,
     seeded |-> FALSE, solo |-> FALSE]

NoResp ==
    [op |-> "none", id |-> 0, data |-> NoBody, json |-> FALSE, status |-> 0,
     error |-> "", raised |-> FALSE, doc |-> << >>, docs |-> {},
     n1 |-> 0, n2 |-> 0, seeded |-> FALSE, solo |-> FALSE]

\* A JSON response; raised marks an exception that left the handler instead.
\* With the response, last keeps what the request was: op and id for all,
\* the body (data) of a POST, and whether a PUT had a JSON object (json).
Resp(op, id, status, error) ==
    [NoResp EXCEPT !.op = op, !.id = id, !.status = status, !.error = error]

Raised(op, id) ==
    [NoResp EXCEPT !.op = op, !.id = id, !.status = 500, !.raised = TRUE]

\* History kept in req: seeded (this reset inserted both sample sets), solo
\* (no other thread has taken a step since this reset began).  Thread w's
\* locals become r; a reset in flight in another thread is no longer running
\* alone.
Step(w, r) ==
    req' = [v \in Workers |-> IF v = w THEN r ELSE [req[v] EXCEPT !.solo = FALSE]]

Connected == client = "conn"

Init ==
    /\ phase = "boot"
    /\ client = "None"
    /\ tasks = << >>
    /\ users = << >>
    /\ indexes = {}
    /\ nextId = 1
    /\ pc = [w \in Workers |-> "idle"]
    /\ req = [w \in Workers |-> IdleReq]
    /\ last = NoResp
    /\ nreq = 0
    /\ deleted = {}
    /\ created = << >>
    /\ seedIds = {}
    /\ putLog = << >>

\* ---------------------------------------------------------------- startup
\* MongoClient(...) or the ping raises: client = None, no initialisation.
ConnectFails ==
    /\ phase = "boot"
    /\ phase' = "running"
    /\ UNCHANGED <<client, store, pc, req, last, nreq, history>>

\* The ping succeeds: the handles are bound to the database found.
ConnectOk ==
    /\ phase = "boot"
    /\ \E pre \in PreStores :
          /\ tasks' = pre.tasks
          /\ users' = pre.users
          /\ indexes' = pre.indexes
          /\ nextId' = pre.nextId
    /\ client' = "conn"
    /\ phase' = "init"
    /\ UNCHANGED <<pc, req, last, nreq, history>>

\* init_database_if_empty(db) inside the module-level try/except.
InitDb ==
    /\ phase = "init"
    /\ LET st == InitDatabaseIfEmpty([tasks |-> tasks, users |-> users,
                                      indexes |-> indexes, nextId |-> nextId])
       IN  /\ tasks' = st.tasks
           /\ users' = st.users
           /\ indexes' = st.indexes
           /\ nextId' = st.nextId
           /\ seedIds' = seedIds \cup (DOMAIN st.tasks \ DOMAIN tasks)
    /\ phase' = "running"
    /\ UNCHANGED <<client, pc, req, last, nreq, deleted, created, putLog>>

Idle(w) == phase = "running" /\ pc[w] = "idle"

\* ------------------------------------------------------------ GET handlers
\* get_tasks: no try/except; tasks_collection.find() on None raises.
GetTasks(w) ==
    /\ Idle(w)
    /\ nreq < MaxReq
    /\ nreq' = nreq + 1
    /\ last' = IF Connected
               THEN [Resp("LIST", 0, 200, "") EXCEPT
                        !.docs = {serialize_task(tasks[i], i) : i \in DOMAIN tasks},
                        !.n1 = Count(tasks)]
               ELSE Raised("LIST", 0)
    /\ Step(w, req[w])
    /\ UNCHANGED <<phase, client, store, pc, history>>

\* get_task's answer in the current state: find_one on None and
\* ObjectId(task_id) both raise into the bare except.
GetTaskResponse(task_id) ==
    IF ~Connected \/ ~ObjectIdValid(task_id)
    THEN Resp("GET", task_id, 400, "Invalid task ID")
    ELSE IF task_id \in DOMAIN tasks
    THEN [Resp("GET", task_id, 200, "") EXCEPT
             !.doc = serialize_task(tasks[task_id], task_id)]
    ELSE Resp("GET", task_id, 404, "Task not found")

\* get_task
GetTask(w, task_id) ==
    /\ Idle(w)
    /\ nreq < MaxReq
    /\ nreq' = nreq + 1
    /\ last' = GetTaskResponse(task_id)
    /\ Step(w, req[w])
    /\ UNCHANGED <<phase, client, store, pc, history>>

\* get_time: client.server_info() on None raises, outside any try.
GetTime(w) ==
    /\ Idle(w)
    /\ nreq < MaxReq
    /\ nreq' = nreq + 1
    /\ last' = IF Connected THEN Resp("TIME", 0, 200, "")
               ELSE Raised("TIME", 0)
    /\ Step(w, req[w])
    /\ UNCHANGED <<phase, client, store, pc, history>>

\* health_check
HealthCheck(w) ==
    /\ Idle(w)
    /\ nreq < MaxReq
    /\ nreq' = nreq + 1
    /\ last' = IF Connected
               THEN [Resp("HEALTH", 0, 200, "") EXCEPT !.n1 = Count(tasks)]
               ELSE Resp("HEALTH", 0, 500, "unhealthy")
    /\ Step(w, req[w])
    /\ UNCHANGED <<phase, client, store, pc, history>>

\* ------------------------------------------------------------ create_task
CreateTask(w, data) ==
    /\ Idle(w)
    /\ nreq < MaxReq
    /\ nreq' = nreq + 1
    /\ Step(w, req[w])
    /\ IF TitleMissing(data)
       THEN /\ last' = [Resp("POST", 0, 400, "Title is required") EXCEPT !.data = data]
            /\ UNCHANGED <<store, history>>
       ELSE IF ~Connected
       THEN /\ last' = [Raised("POST", 0) EXCEPT !.data = data]
            /\ UNCHANGED <<store, history>>
       ELSE LET oid == NewObjectId(tasks, nextId)
                new_task == NewTask(data.obj)
            IN  /\ tasks' = InsertOne(tasks, oid, new_task)
                /\ nextId' = nextId + 1
                /\ last' = [Resp("POST", oid, 201, "") EXCEPT
                               !.data = data,
                               !.doc = serialize_task(new_task, oid)]
                /\ created' = (oid :> [doc |-> serialize_task(new_task, oid),
                                       wiped |-> FALSE]) @@ created
                /\ UNCHANGED <<users, indexes, deleted, seedIds, putLog>>
    /\ UNCHANGED <<phase, client, pc>>


\* ------------------------------------------------------------ update_task
SuppliedFields(obj) == DOMAIN obj \cap Fields

\* 'title' in None raises TypeError before the store is touched; the bare
\* except answers every exception with 400.
UpdateTask(w, task_id, data) ==
    /\ Idle(w)
    /\ nreq < MaxReq
    /\ nreq' = nreq + 1
    /\ Step(w, req[w])
    /\ IF ~data.present \/ ~Connected \/ ~ObjectIdValid(task_id)
       THEN /\ last' = [Resp("PUT", task_id, 400, "Invalid task ID") EXCEPT
                           !.json = data.present]
            /\ UNCHANGED <<store, history>>
       ELSE IF task_id \in DOMAIN tasks
       THEN /\ tasks' = [tasks EXCEPT ![task_id] = ApplySet(@, UpdateData(data.obj))]
            /\ last' = [Resp("PUT", task_id, 200, "") EXCEPT
                           !.json = TRUE,
                           !.doc = serialize_task(tasks'[task_id], task_id)]
            /\ created' = [i \in DOMAIN created \ {task_id} |-> created[i]]
            /\ putLog' = Append(putLog, [id |-> task_id,
                                         obj |-> [f \in SuppliedFields(data.obj) |->
                                                     data.obj[f]]])
            /\ UNCHANGED <<users, indexes, nextId, deleted, seedIds>>
       ELSE /\ last' = [Resp("PUT", task_id, 404, "Task not found") EXCEPT
                           !.json = TRUE]
            /\ UNCHANGED <<store, history>>
    /\ UNCHANGED <<phase, client, pc>>

\* ------------------------------------------------------------ delete_task
\* delete_task's answer in the current state; 200 carries the message
\* "Task deleted successfully".
DeleteTaskResponse(task_id) ==
    IF ~Connected \/ ~ObjectIdValid(task_id)
    THEN Resp("DELETE", task_id, 400, "Invalid task ID")
    ELSE IF Count(tasks) - Count(DeleteOne(tasks, task_id)) # 0
    THEN Resp("DELETE", task_id, 200, "")
    ELSE Resp("DELETE", task_id, 404, "Task not found")

DeleteTask(w, task_id) ==
    /\ Idle(w)
    /\ nreq < MaxReq
    /\ nreq' = nreq + 1
    /\ Step(w, req[w])
    /\ last' = DeleteTaskResponse(task_id)
    /\ IF Connected /\ ObjectIdValid(task_id)
       THEN /\ tasks' = DeleteOne(tasks, task_id)
            /\ deleted' = IF last'.status = 200 THEN deleted \cup {task_id} ELSE deleted
            /\ created' = IF last'.status = 200
                          THEN [i \in DOMAIN created \ {task_id} |-> created[i]]
                          ELSE created
            /\ UNCHANGED <<users, indexes, nextId, seedIds, putLog>>
       ELSE UNCHANGED <<store, history>>
    /\ UNCHANGED <<phase, client, pc>>

\* --------------------------------------------------------- reset_database
Goto(w, label) == pc' = [pc EXCEPT ![w] = label]

ResetFailed == Resp("SETUP", 0, 500, "Failed to reset database")

ResetBegin(w) ==
    /\ Idle(w)
    /\ nreq < MaxReq
    /\ nreq' = nreq + 1
    /\ Step(w, [IdleReq EXCEPT !.op = "SETUP",
                               !.solo = \A v \in Workers \ {w} : pc[v] = "idle"])
    /\ Goto(w, "delete_tasks")
    /\ UNCHANGED <<phase, client, store, last, history>>

\* tasks_collection.delete_many({}); on None it raises into the except.
ResetDeleteTasks(w) ==
    /\ pc[w] = "delete_tasks"
    /\ IF ~Connected
       THEN /\ last' = ResetFailed
            /\ Step(w, IdleReq)
            /\ Goto(w, "idle")
            /\ UNCHANGED <<store, history>>
       ELSE /\ tasks' = DeleteManyTasks(tasks)
            /\ created' = [i \in DOMAIN created |-> [created[i] EXCEPT !.wiped = TRUE]]
            /\ Step(w, req[w])
            /\ Goto(w, "delete_users")
            /\ UNCHANGED <<users, indexes, nextId, last, deleted, seedIds, putLog>>
    /\ UNCHANGED <<phase, client, nreq>>

\* users_collection.delete_many({})
ResetDeleteUsers(w) ==
    /\ pc[w] = "delete_users"
    /\ users' = DeleteManyUsers(users)
    /\ Step(w, req[w])
    /\ Goto(w, "count_tasks")
    /\ UNCHANGED <<phase, client, tasks, indexes, nextId, last, nreq, history>>

\* check_database_empty: db['tasks'].count_documents({})
ResetCountTasks(w) ==
    /\ pc[w] = "count_tasks"
    /\ Step(w, [req[w] EXCEPT !.tasks_count = Count(tasks)])
    /\ Goto(w, "count_users")
    /\ UNCHANGED <<phase, client, store, last, nreq, history>>

\* check_database_empty: db['users'].count_documents({}), and the branch of
\* init_database_if_empty
ResetCountUsers(w) ==
    /\ pc[w] = "count_users"
    /\ Step(w, [req[w] EXCEPT !.users_count = Len(users)])
    /\ Goto(w, IF CheckDatabaseEmpty(req[w].tasks_count, Len(users))
               THEN "insert_tasks" ELSE "final_tasks")
    /\ UNCHANGED <<phase, client, store, last, nreq, history>>

\* create_sample_tasks
ResetInsertTasks(w) ==
    /\ pc[w] = "insert_tasks"
    /\ tasks' = CreateSampleTasks(tasks, nextId)
    /\ nextId' = nextId + Len(sample_tasks)
    /\ seedIds' = seedIds \cup (DOMAIN tasks' \ DOMAIN tasks)
    /\ Step(w, req[w])
    /\ Goto(w, "insert_users")
    /\ UNCHANGED <<phase, client, users, indexes, last, nreq, deleted, created, putLog>>

\* create_sample_users
ResetInsertUsers(w) ==
    /\ pc[w] = "insert_users"
    /\ users' = CreateSampleUsers(users, indexes)
    /\ IF CreateSampleUsersRaises(users, indexes)
       THEN /\ last' = ResetFailed
            /\ Step(w, IdleReq)
            /\ Goto(w, "idle")
       ELSE /\ last' = last
            /\ Step(w, [req[w] EXCEPT !.seeded = TRUE])
            /\ Goto(w, "create_indexes")
    /\ UNCHANGED <<phase, client, tasks, indexes, nextId, nreq, history>>

\* create_indexes
ResetCreateIndexes(w) ==
    /\ pc[w] = "create_indexes"
    /\ indexes' = CreateIndexes(users, indexes)
    /\ IF CreateIndexesRaises(users, indexes)
       THEN /\ last' = ResetFailed
            /\ Step(w, IdleReq)
            /\ Goto(w, "idle")
       ELSE /\ last' = last
            /\ Step(w, req[w])
            /\ Goto(w, "final_tasks")
    /\ UNCHANGED <<phase, client, tasks, users, nextId, nreq, history>>

\* task_count = tasks_collection.count_documents({})
ResetFinalTasks(w) ==
    /\ pc[w] = "final_tasks"
    /\ Step(w, [req[w] EXCEPT !.task_count = Count(tasks)])
    /\ Goto(w, "final_users")
    /\ UNCHANGED <<phase, client, store, last, nreq, history>>

\* user_count = users_collection.count_documents({}), and the 200 response
ResetFinalUsers(w) ==
    /\ pc[w] = "final_users"
    /\ last' = [Resp("SETUP", 0, 200, "") EXCEPT
                   !.n1 = req[w].task_count, !.n2 = Len(users),
                   !.seeded = req[w].seeded, !.solo = req[w].solo]
    /\ Step(w, IdleReq)
    /\ Goto(w, "idle")
    /\ UNCHANGED <<phase, client, store, nreq, history>>

\* ------------------------------------------------------------------- spec
Next ==
    \/ ConnectFails
    \/ ConnectOk
    \/ InitDb
    \/ \E w \in Workers : GetTasks(w)
    \/ \E w \in Workers, task_id \in TaskIds : GetTask(w, task_id)
    \/ \E w \in Workers : GetTime(w)
    \/ \E w \in Workers : HealthCheck(w)
    \/ \E w \in Workers, data \in PostBodies : CreateTask(w, data)
    \/ \E w \in Workers, task_id \in TaskIds, data \in Bodies : UpdateTask(w, task_id, data)
    \/ \E w \in Workers, task_id \in TaskIds : DeleteTask(w, task_id)
    \/ \E w \in Workers : ResetBegin(w)
    \/ \E w \in Workers : ResetDeleteTasks(w)
    \/ \E w \in Workers : ResetDeleteUsers(w)
    \/ \E w \in Workers : ResetCountTasks(w)
    \/ \E w \in Workers : ResetCountUsers(w)
    \/ \E w \in Workers : ResetInsertTasks(w)
    \/ \E w \in Workers : ResetInsertUsers(w)
    \/ \E w \in Workers : ResetCreateIndexes(w)
    \/ \E w \in Workers : ResetFinalTasks(w)
    \/ \E w \in Workers : ResetFinalUsers(w)

Spec == Init /\ [][Next]_vars


\* ========================================================== properties
\* A step in which a one-command handler serves a request and answers it.
AtomicAnswer == nreq' = nreq + 1 /\ pc' = pc

\* A step in which thread w's reset_database answers.
ResetAnswer(w) == pc[w] # "idle" /\ pc'[w] = "idle"

\* The body carries no non-empty title.
NoNonEmptyTitle(data) ==
    \/ ~data.present
    \/ "title" \notin DOMAIN data.obj
    \/ data.obj["title"] \in {"", Null}

\* C1: with the store connected, every POST /api/tasks whose body is absent,
\* empty or without a non-empty title is answered 400
\* {"error": "Title is required"}, inserts nothing and leaves the tasks
\* collection as it was.
C1_TitleRequired ==
    [][ (AtomicAnswer /\ Connected /\ last'.op = "POST" /\ NoNonEmptyTitle(last'.data))
        => /\ last'.status = 400
           /\ last'.error = "Title is required"
           /\ tasks' = tasks
           /\ nextId' = nextId ]_vars

\* C2: a PUT with a JSON object on an existing task is answered 200 with the
\* full updated record; the supplied fields hold the supplied values, the
\* task's other fields except updated_at keep their values, and every other
\* task is unchanged.
C2_PutMergesSuppliedFields ==
    [][ (AtomicAnswer /\ last'.op = "PUT" /\ last'.json /\ last'.id \in DOMAIN tasks)
        => /\ last'.status = 200
           /\ Len(putLog') = Len(putLog) + 1
           /\ LET id == last'.id
                  S == DOMAIN putLog'[Len(putLog')].obj
              IN  /\ putLog'[Len(putLog')].id = id
                  /\ DOMAIN tasks' = DOMAIN tasks
                  /\ DOMAIN tasks'[id] = DOMAIN tasks[id] \cup S \cup {"updated_at"}
                  /\ \A f \in S : tasks'[id][f] = putLog'[Len(putLog')].obj[f]
                  /\ \A f \in DOMAIN tasks[id] \ (S \cup {"updated_at"}) :
                        tasks'[id][f] = tasks[id][f]
                  /\ \A j \in DOMAIN tasks \ {id} : tasks'[j] = tasks[j]
                  /\ last'.doc = serialize_task(tasks'[id], id) ]_vars

\* C2 witness: a PUT of only {"completed": true} on a sample task that was
\* not completed was answered 200; completed is true and the rest is the
\* sample's.
C2_Witness ==
    /\ last.op = "PUT" /\ last.status = 200
    /\ putLog # << >>
    /\ DOMAIN putLog[Len(putLog)].obj = {"completed"}
    /\ \E k \in 1 .. Len(sample_tasks) :
          /\ ~sample_tasks[k].completed
          /\ last.doc["completed"] = TRUE
          /\ last.doc["title"] = sample_tasks[k].title
          /\ last.doc["priority"] = sample_tasks[k].priority
          /\ last.doc["description"] = sample_tasks[k].description

\* C3: with the store connected, GET, PUT and DELETE of a malformed id answer
\* 400 "Invalid task ID", of a well-formed id no task has 404 "Task not
\* found", and neither changes the tasks collection.
C3_NotFoundAndInvalidId ==
    [][ (AtomicAnswer /\ Connected /\ last'.op \in {"GET", "PUT", "DELETE"})
        => /\ ~ObjectIdValid(last'.id)
                => /\ last'.status = 400
                   /\ last'.error = "Invalid task ID"
                   /\ tasks' = tasks
           /\ (ObjectIdValid(last'.id) /\ last'.id \notin DOMAIN tasks)
                => /\ last'.status = 404
                   /\ last'.error = "Task not found"
                   /\ tasks' = tasks ]_vars

\* C4: a DELETE answered 200 removes its target and nothing else, and from
\* then on, whatever is created, updated, deleted or reset, the id is in no
\* task and a GET or a DELETE of it is answered 404.
C4_DeleteIsPermanent ==
    [][ /\ (AtomicAnswer /\ last'.op = "DELETE" /\ last'.status = 200)
            => /\ last'.id \in DOMAIN tasks
               /\ DOMAIN tasks' = DOMAIN tasks \ {last'.id}
               /\ \A j \in DOMAIN tasks' : tasks'[j] = tasks[j]
        /\ \A id \in deleted' :
              /\ id \notin DOMAIN tasks'
              /\ GetTaskResponse(id)'.status = 404
              /\ DeleteTaskResponse(id)'.status = 404 ]_vars

\* C4 witness: the third sample task was deleted, and a later DELETE of the
\* same id was answered 404.
C4_Witness ==
    /\ 3 \in deleted
    /\ last.op = "DELETE" /\ last.id = 3 /\ last.status = 404
    /\ Count(tasks) = Len(sample_tasks) - 1


\* The object agrees with the stored or returned document on the four
\* client-supplied fields.
SameFields(a, b) == \A f \in Fields : f \in DOMAIN a /\ f \in DOMAIN b /\ a[f] = b[f]

\* What an accepted POST must return for the body it was sent.
ReturnsSubmitted ==
    (last.op = "POST" /\ last.status = 201)
    => /\ last.doc["title"] = last.data.obj["title"]
       /\ last.doc["completed"] = DictGet(last.data.obj, "completed", FALSE)
       /\ last.doc["priority"] = DictGet(last.data.obj, "priority", "medium")
       /\ last.doc["description"] = DictGet(last.data.obj, "description", "")

\* C5, as stated: an accepted POST returns the submitted values or the
\* defaults, and a GET of the returned id, with no PUT or DELETE of that id in
\* between, is answered 200 with an object equal to it on the four fields.
C5_RoundTripOriginal ==
    /\ ReturnsSubmitted
    /\ \A id \in DOMAIN created :
          /\ GetTaskResponse(id).status = 200
          /\ SameFields(GetTaskResponse(id).doc, created[id].doc)

\* C5, amended: the same, for a GET with no PUT or DELETE of that id and no
\* POST /api/setup clearing the collection in between.
C5_RoundTrip ==
    /\ ReturnsSubmitted
    /\ \A id \in DOMAIN created :
          ~created[id].wiped
          => /\ GetTaskResponse(id).status = 200
             /\ SameFields(GetTaskResponse(id).doc, created[id].doc)

\* C5 witness: a task posted with a priority and no completed flag was
\* fetched by its returned id: 200, with the priority sent and the default
\* completed.
C5_Witness ==
    /\ last.op = "GET" /\ last.status = 200
    /\ last.id \in DOMAIN created
    /\ ~created[last.id].wiped
    /\ SameFields(last.doc, created[last.id].doc)
    /\ last.doc["title"] = Supplied.title
    /\ last.doc["priority"] = Supplied.priority
    /\ last.doc["completed"] = FALSE
    /\ last.doc["description"] = ""

\* C6: every stored task has a title, and it is not null.
C6_TitleNeverNull ==
    \A id \in DOMAIN tasks :
        "title" \in DOMAIN tasks[id] /\ tasks[id]["title"] # Null

\* C7: initialising on a store whose collections are both empty leaves 5
\* tasks and 2 users; and with the store connected, a POST /api/setup during
\* which no other thread takes a step is answered 200 with tasks_created = 5
\* and users_created = 2 and leaves 5 tasks and 2 users, whatever the store
\* held and however many resets came before.
C7_SeedingIsExact ==
    [][ /\ (phase = "init" /\ phase' = "running" /\ Count(tasks) = 0 /\ Len(users) = 0)
            => (Count(tasks') = 5 /\ Len(users') = 2)
        /\ \A w \in Workers :
              (ResetAnswer(w) /\ req[w].solo /\ Connected)
              => /\ last'.op = "SETUP"
                 /\ last'.status = 200
                 /\ last'.n1 = 5 /\ last'.n2 = 2
                 /\ Count(tasks') = 5 /\ Len(users') = 2 ]_vars

\* C7 witness: a reset that ran alone answered 200 with 5 and 2 on a store
\* that start-up and an earlier reset had both seeded.
C7_Witness ==
    /\ last.op = "SETUP" /\ last.status = 200 /\ last.solo
    /\ last.n1 = 5 /\ last.n2 = 2
    /\ Count(tasks) = 5 /\ Len(users) = 2
    /\ nreq = 2
    /\ Cardinality(seedIds) = 3 * Len(sample_tasks)

\* C8: no exception leaves a handler, and every error response carries a
\* JSON error body.
C8_NoExceptionEscapes ==
    /\ ~last.raised
    /\ last.status >= 400 => last.error # ""

\* C9: every POST /api/setup answered 200 inserted the 5 sample tasks and the
\* 2 sample users after its deletions, and the store never holds more than
\* one inserted sample set.
C9_ResetAlwaysSeedsOnce ==
    /\ (last.op = "SETUP" /\ last.status = 200) => last.seeded
    /\ Cardinality(seedIds \cap DOMAIN tasks) <= Len(sample_tasks)

\* C10: no update is lost: every field of a stored task that some PUT
\* supplied holds the value of the latest PUT that supplied it, so after two
\* PUTs with disjoint field sets the task carries both.
C10_NoLostUpdate ==
    \A k \in 1 .. Len(putLog) : \A f \in DOMAIN putLog[k].obj :
        ( /\ putLog[k].id \in DOMAIN tasks
          /\ \A j \in (k + 1) .. Len(putLog) :
                putLog[j].id # putLog[k].id \/ f \notin DOMAIN putLog[j].obj )
        => /\ f \in DOMAIN tasks[putLog[k].id]
           /\ tasks[putLog[k].id][f] = putLog[k].obj[f]

\* C10 witness: two PUTs on the same task, one with only title and one with
\* only completed, were both answered 200 and the task has both.
C10_Witness ==
    /\ Len(putLog) = 2
    /\ putLog[1].id = putLog[2].id
    /\ putLog[1].id \in DOMAIN tasks
    /\ DOMAIN putLog[1].obj = {"title"}
    /\ DOMAIN putLog[2].obj = {"completed"}
    /\ tasks[putLog[1].id]["title"] = Supplied.title
    /\ tasks[putLog[1].id]["completed"] = Supplied.completed
    /\ \E k \in 1 .. Len(sample_tasks) :
          /\ sample_tasks[k].title # Supplied.title
          /\ sample_tasks[k].completed # Supplied.completed
          /\ tasks[putLog[1].id]["description"] = sample_tasks[k].description

====
